---- MODULE Spec2Model ----
(***************************************************************************)
(* Local search and ranking engine of the PubMed corpus pipeline           *)
(* (pipelines/papersrch/text_utils.py and pipelines/papersrch/pt_search.py)*)
(* Text is modelled as TLA+ strings, read character by character.          *)
(* Scores are integers in units of 1/1000; cosines in units of 1/100.      *)
(***************************************************************************)
EXTENDS Integers, Sequences, FiniteSets, TLC

(***************************************************************************)
(* Characters                                                              *)
(***************************************************************************)

\* U+0301 COMBINING ACUTE ACCENT.  A string of this module cannot hold a
\* combining mark, so the mark is written with the glyph of the spacing
\* accent; the spacing accent itself is not a character of the model.
CombiningAcute == "´"

\* The characters the model's texts use, in code-point order.
Alphabet ==
  << "\t", "\n", " ", "!", ",", "-", ".",
     "0", "1", "2", "3", "4", "5", "6", "7", "8", "9",
     ";", "?",
     "A", "B", "C", "D", "E", "F", "G", "H", "I", "J", "K", "L", "M",
     "N", "O", "P", "Q", "R", "S", "T", "U", "V", "W", "X", "Y", "Z",
     "_",
     "a", "b", "c", "d", "e", "f", "g", "h", "i", "j", "k", "l", "m",
     "n", "o", "p", "q", "r", "s", "t", "u", "v", "w", "x", "y", "z",
     "²", "µ", "á", "é", "í", "ó", "ú", "ý", CombiningAcute,
     "ά", "α", "β", "γ", "δ", "κ", "μ" >>

UpperLetters ==
  << "A", "B", "C", "D", "E", "F", "G", "H", "I", "J", "K", "L", "M",
     "N", "O", "P", "Q", "R", "S", "T", "U", "V", "W", "X", "Y", "Z" >>

LowerLetters ==
  << "a", "b", "c", "d", "e", "f", "g", "h", "i", "j", "k", "l", "m",
     "n", "o", "p", "q", "r", "s", "t", "u", "v", "w", "x", "y", "z" >>

Digits == {"0", "1", "2", "3", "4", "5", "6", "7", "8", "9"}

\* re's \s
Whitespace == {" ", "\t", "\n"}

\* re's \w on str patterns: alphanumerics and the underscore
WordChars ==
  {UpperLetters[i] : i \in 1..26} \cup {LowerLetters[i] : i \in 1..26}
    \cup Digits
    \cup {"_", "²", "µ", "á", "é", "í", "ó", "ú", "ý",
          "ά", "α", "β", "γ", "δ", "κ", "μ"}

CodeOf == [c \in {Alphabet[i] : i \in 1..Len(Alphabet)} |->
             CHOOSE i \in 1..Len(Alphabet) : Alphabet[i] = c]

CharCode(c) == CodeOf[c]

Char(s, i) == SubSeq(s, i, i)

\* str.lower() on one character
LowerOf == [c \in {UpperLetters[i] : i \in 1..26} |->
              LowerLetters[CHOOSE i \in 1..26 : UpperLetters[i] = c]]

LowerChar(c) == IF c \in DOMAIN LowerOf THEN LowerOf[c] ELSE c

RECURSIVE LowerFrom(_, _)
LowerFrom(s, i) ==
  IF i > Len(s) THEN "" ELSE LowerChar(Char(s, i)) \o LowerFrom(s, i + 1)

\* str.lower()
Lower(s) == LowerFrom(s, 1)

\* Python's `sub in s`
Contains(s, sub) ==
  \E i \in 1..(Len(s) - Len(sub) + 1) : SubSeq(s, i, i + Len(sub) - 1) = sub

RECURSIVE StrLessFrom(_, _, _)
StrLessFrom(a, b, i) ==
  IF i > Len(a) THEN i <= Len(b)
  ELSE IF i > Len(b) THEN FALSE
  ELSE IF Char(a, i) = Char(b, i) THEN StrLessFrom(a, b, i + 1)
  ELSE CharCode(Char(a, i)) < CharCode(Char(b, i))

\* Python's a < b on str
StrLess(a, b) == StrLessFrom(a, b, 1)

\* str.strip()
RECURSIVE LStrip(_)
LStrip(s) ==
  IF Len(s) > 0 /\ Char(s, 1) \in Whitespace
    THEN LStrip(SubSeq(s, 2, Len(s))) ELSE s

RECURSIVE RStrip(_)
RStrip(s) ==
  IF Len(s) > 0 /\ Char(s, Len(s)) \in Whitespace
    THEN RStrip(SubSeq(s, 1, Len(s) - 1)) ELSE s

Strip(s) == RStrip(LStrip(s))

(***************************************************************************)
(* text_utils.py                                                           *)
(***************************************************************************)

GREEK_MAP ==
  << <<"β", "beta">>, <<"α", "alpha">>, <<"κ", "kappa">>,
     <<"γ", "gamma">>, <<"δ", "delta">> >>

DOMAIN_KEYWORDS ==
  << "nf-kb", "tgf-beta", "il-6", "tnf", "t cell", "epithelial barrier",
     "autophagy", "mucosa", "tight junction", "smad2", "smad3" >>

\* unicodedata.normalize('NFKC', .): the characters of Alphabet that have a
\* compatibility decomposition are replaced by it, and then a letter followed
\* by the combining acute accent is composed into one character where
\* Unicode has that character.
NFKCMap == << <<"²", "2">>, <<"µ", "μ">> >>

\* The canonical compositions with the acute accent, over the lower-case
\* vowels and the Greek letters of Alphabet: β, γ, δ, κ and μ have none.
ComposeMap ==
  << <<"a", "á">>, <<"e", "é">>, <<"i", "í">>, <<"o", "ó">>, <<"u", "ú">>,
     <<"y", "ý">>, <<"α", "ά">> >>

Composable(c) == \E p \in 1..Len(ComposeMap) : ComposeMap[p][1] = c

Composed(c) == ComposeMap[CHOOSE p \in 1..Len(ComposeMap) : ComposeMap[p][1] = c][2]

\* canonical composition of the pairs letter + combining acute, left to right
RECURSIVE Compose(_, _)
Compose(s, i) ==
  IF i > Len(s) THEN ""
  ELSE IF i < Len(s) /\ Char(s, i + 1) = CombiningAcute /\ Composable(Char(s, i))
    THEN Composed(Char(s, i)) \o Compose(s, i + 2)
  ELSE Char(s, i) \o Compose(s, i + 1)

NFKCChar(c) ==
  IF \E p \in 1..Len(NFKCMap) : NFKCMap[p][1] = c
    THEN NFKCMap[CHOOSE p \in 1..Len(NFKCMap) : NFKCMap[p][1] = c][2]
    ELSE c

RECURSIVE NFKCFrom(_, _)
NFKCFrom(s, i) ==
  IF i > Len(s) THEN "" ELSE NFKCChar(Char(s, i)) \o NFKCFrom(s, i + 1)

NFKC(s) == Compose(NFKCFrom(s, 1), 1)

\* str.replace(k, v) for a one-character k
RECURSIVE ReplaceChar(_, _, _, _)
ReplaceChar(s, k, v, i) ==
  IF i > Len(s) THEN ""
  ELSE (IF Char(s, i) = k THEN v ELSE Char(s, i)) \o ReplaceChar(s, k, v, i + 1)

RECURSIVE GreekReplace(_, _)
GreekReplace(s, n) ==
  IF n > Len(GREEK_MAP) THEN s
  ELSE GreekReplace(ReplaceChar(s, GREEK_MAP[n][1], GREEK_MAP[n][2], 1), n + 1)

\* re.sub(r"\s+", " ", text)
RECURSIVE CollapseWs(_, _)
CollapseWs(s, i) ==
  IF i > Len(s) THEN ""
  ELSE IF Char(s, i) \in Whitespace
    THEN (IF i > 1 /\ Char(s, i - 1) \in Whitespace THEN "" ELSE " ")
           \o CollapseWs(s, i + 1)
    ELSE Char(s, i) \o CollapseWs(s, i + 1)

\* A value that is not a str (None, NaN) is the model value NoText; its
\* characters are outside Alphabet, so no text of the model equals it.
NoText == "<None>"

normalize_text(text) ==
  IF text = NoText THEN ""
  ELSE Strip(CollapseWs(GreekReplace(NFKC(text), 1), 1))

\* re.findall(r"\b\w+\b", s): the maximal runs of word characters, in order
RECURSIVE FindWords(_, _, _)
FindWords(s, i, cur) ==
  IF i > Len(s) THEN (IF cur = "" THEN <<>> ELSE <<cur>>)
  ELSE IF Char(s, i) \in WordChars THEN FindWords(s, i + 1, cur \o Char(s, i))
  ELSE (IF cur = "" THEN <<>> ELSE <<cur>>) \o FindWords(s, i + 1, "")

Tokens(text) == FindWords(Lower(normalize_text(text)), 1, "")

Range(seq) == {seq[i] : i \in 1..Len(seq)}

\* sorted(set of str)
RECURSIVE SortedStrings(_)
SortedStrings(S) ==
  IF S = {} THEN <<>>
  ELSE LET m == CHOOSE x \in S : \A y \in S \ {x} : StrLess(x, y)
       IN  <<m>> \o SortedStrings(S \ {m})

\* the variants of a term that is normalized but not lowercased
Variants_NoLower(term) ==
  LET norm == normalize_text(term)
  IN  {norm}
        \cup (IF \E tok \in {"microrna", "mirna", "mir-"} : Contains(norm, tok)
                THEN {"microrna", "mirna", "mir"} ELSE {})
        \cup (IF norm \in {"ibd", "inflammatory bowel disease"}
                THEN {"ibd", "inflammatory bowel disease"} ELSE {})
        \cup (IF Contains(norm, "celiac") \/ Contains(norm, "coeliac")
                THEN {"celiac", "coeliac"} ELSE {})

\* the variants of one term
Variants(term) ==
  LET norm == Lower(normalize_text(term))
  IN  {norm}
        \cup (IF \E tok \in {"microrna", "mirna", "mir-"} : Contains(norm, tok)
                THEN {"microrna", "mirna", "mir"} ELSE {})
        \cup (IF norm \in {"ibd", "inflammatory bowel disease"}
                THEN {"ibd", "inflammatory bowel disease"} ELSE {})
        \cup (IF Contains(norm, "celiac") \/ Contains(norm, "coeliac")
                THEN {"celiac", "coeliac"} ELSE {})

\* the elements of seq in reverse order
Reverse(seq) == [i \in 1..Len(seq) |-> seq[Len(seq) + 1 - i]]

\* an expansion that lists the variants of each term in descending order
Expanded_Descending(terms) ==
  [i \in 1..Len(terms) |-> Reverse(SortedStrings(Variants(terms[i])))]

Expanded(terms) ==
  [i \in 1..Len(terms) |-> SortedStrings(Variants(terms[i]))]

\* the queries of the model
Queries ==
  { <<>>, <<"IBD">>, <<"microRNA">>, <<"microRNA", "miRNA">>,
    <<"Celiac", "IBD">>, <<"imaging">>, <<"mucosa", "rise">> }

\* expand_query_terms(terms), tabulated once for the queries of the model
ExpandedOf == [q \in Queries |-> Expanded(q)]

expand_query_terms(terms) ==
  IF terms \in DOMAIN ExpandedOf THEN ExpandedOf[terms] ELSE Expanded(terms)

\* [t for g in groups for t in g]
RECURSIVE Flatten(_)
Flatten(groups) ==
  IF groups = <<>> THEN <<>> ELSE Head(groups) \o Flatten(Tail(groups))

\* str.split(sep) for a one-character sep
RECURSIVE SplitFrom(_, _, _, _)
SplitFrom(s, seps, i, cur) ==
  IF i > Len(s) THEN <<cur>>
  ELSE IF Char(s, i) \in seps THEN <<cur>> \o SplitFrom(s, seps, i + 1, "")
  ELSE SplitFrom(s, seps, i + 1, cur \o Char(s, i))

Split(s, seps) == SplitFrom(s, seps, 1, "")

\* [p.strip() for p in parts if p.strip()]
RECURSIVE StripNonEmpty(_)
StripNonEmpty(parts) ==
  IF parts = <<>> THEN <<>>
  ELSE (IF Strip(Head(parts)) = "" THEN <<>> ELSE <<Strip(Head(parts))>>)
         \o StripNonEmpty(Tail(parts))

\* the elements of seq that satisfy Keep, in order
RECURSIVE SelectRows(_, _)
SelectRows(seq, keep) ==
  IF seq = <<>> THEN <<>>
  ELSE (IF Head(seq).PMID \in keep THEN <<Head(seq)>> ELSE <<>>)
         \o SelectRows(Tail(seq), keep)

(***************************************************************************)
(* The corpus: raw records as read from papers.jsonl                       *)
(***************************************************************************)

\* A Year is <<>> when missing (pd.NA) and <<y>> when present.
NA == <<>>
notna(year) == year # NA

\* A PublicationTypes value is a list or a delimited string.
TList(v) == [kind |-> "list", v |-> v]
TStr(v)  == [kind |-> "str", v |-> v]

RawPool ==
  << [PMID |-> "A", Title |-> "microRNA biomarkers in celiac disease",
      Abstract |-> "miRNA and microRNA rise. Mucosa heals",
      Authors |-> "X; Y", Journal |-> "Gut", Year |-> <<2021>>,
      DOI |-> "10.1/a", citation_apa |-> "X, Y 2021",
      PublicationTypes |-> TList(<<"Review">>)],
     [PMID |-> "B", Title |-> "unrelated cancer imaging study",
      Abstract |-> "Tumor imaging of miRNA",
      Authors |-> "X; Y; Z", Journal |-> "Radiology", Year |-> <<2019>>,
      DOI |-> "", citation_apa |-> "X, Y, Z 2019",
      PublicationTypes |-> TList(<<>>)],
     [PMID |-> "C", Title |-> "IBD inflammatory bowel disease markers",
      Abstract |-> "Autophagy in IBD? TNF and IL-6 in mucosa!",
      Authors |-> "Z", Journal |-> "Gut Microbes", Year |-> <<2024>>,
      DOI |-> "10.1/c", citation_apa |-> "Z 2024",
      PublicationTypes |-> TStr("Journal Article; Meta-Analysis")],
     [PMID |-> "D", Title |-> "Inflammatory  bowel disease and miR-21",
      Abstract |-> "Inflammatory bowel disease is common. miRNA helps",
      Authors |-> NoText, Journal |-> NoText, Year |-> NA,
      DOI |-> NoText, citation_apa |-> "",
      PublicationTypes |-> TList(<<"Journal Article">>)],
     [PMID |-> "A", Title |-> "microRNA biomarkers in coeliac disease",
      Abstract |-> "miRNA and microRNA rise. Mucosa heals",
      Authors |-> "X; Y", Journal |-> "Gut", Year |-> <<2025>>,
      DOI |-> "10.1/a2", citation_apa |-> "X, Y 2025",
      PublicationTypes |-> TList(<<"Review">>)],
     [PMID |-> "E", Title |-> "miRNA in TGF-β signalling",
      Abstract |-> "Levels of miRNA rise",
      Authors |-> "Y; Z", Journal |-> "Gut", Year |-> <<2020>>,
      DOI |-> "10.1/e", citation_apa |-> "Y, Z 2020",
      PublicationTypes |-> TList(<<>>)],
     [PMID |-> "F", Title |-> "cancer imaging atlas",
      Abstract |-> "Atlas of tumor imaging",
      Authors |-> "Ana Z", Journal |-> "Radiology", Year |-> <<2019>>,
      DOI |-> "", citation_apa |-> "Z 2019",
      PublicationTypes |-> TList(<<>>)],
     [PMID |-> "G", Title |-> NoText, Abstract |-> NoText,
      Authors |-> "X; Y; X", Journal |-> "Gut", Year |-> <<2022>>,
      DOI |-> "10.1/g", citation_apa |-> "X 2022",
      PublicationTypes |-> TList(<<>>)] >>

\* the number of records in the corpus file
MaxDocs == 3

\* the corpus files: up to MaxDocs records of RawPool, in pool order
RECURSIVE Pick(_, _)
Pick(S, i) ==
  IF i > Len(RawPool) THEN <<>>
  ELSE (IF i \in S THEN <<RawPool[i]>> ELSE <<>>) \o Pick(S, i + 1)

CorpusFiles ==
  {Pick(S, 1) : S \in {T \in SUBSET (1..Len(RawPool)) : Cardinality(T) <= MaxDocs}}

\* tokenize(text).  The titles and abstracts of RawPool are tokenized again
\* by every search, so their token lists are tabulated once.
PoolTexts ==
  UNION {{normalize_text(RawPool[i].Title), normalize_text(RawPool[i].Abstract)} :
           i \in 1..Len(RawPool)}

TokensOf == [t \in PoolTexts |-> Tokens(t)]

tokenize(text) == IF text \in DOMAIN TokensOf THEN TokensOf[text] ELSE Tokens(text)

(***************************************************************************)
(* pt_search.py: load_corpus                                               *)
(***************************************************************************)

\* df.drop_duplicates("PMID", keep="last")
RECURSIVE drop_duplicates(_)
drop_duplicates(recs) ==
  IF recs = <<>> THEN <<>>
  ELSE (IF \E j \in 2..Len(recs) : recs[j].PMID = Head(recs).PMID
          THEN <<>> ELSE <<Head(recs)>>) \o drop_duplicates(Tail(recs))

\* .fillna("")
fillna(v) == IF v = NoText THEN "" ELSE v

PublicationTypes_norm(x) ==
  IF x.kind = "list" THEN x.v
  ELSE IF x.v # "" THEN StripNonEmpty(Split(x.v, {";"}))
  ELSE <<>>

LoadRow(r) ==
  LET abstract == normalize_text(r.Abstract)
      authors  == normalize_text(fillna(r.Authors))
  IN  [PMID |-> r.PMID,
       Year |-> r.Year,
       Title |-> normalize_text(r.Title),
       Abstract |-> abstract,
       Authors |-> authors,
       Authors_list |-> StripNonEmpty(Split(authors, {";"})),
       Journal |-> normalize_text(fillna(r.Journal)),
       DOI |-> normalize_text(fillna(r.DOI)),
       citation_apa |-> fillna(r.citation_apa),
       Abstract_len |-> Len(abstract),
       PublicationTypes |-> r.PublicationTypes,
       PublicationTypes_norm |-> PublicationTypes_norm(r.PublicationTypes)]

\* the table load_corpus returns for a non-empty list of records
load_corpus(recs) ==
  LET d == drop_duplicates(recs) IN [i \in 1..Len(d) |-> LoadRow(d[i])]

(***************************************************************************)
(* pt_search.py: SearchEngine.__init__                                     *)
(***************************************************************************)

\* The features TfidfVectorizer(ngram_range=(1, 2)) extracts from a text:
\* lower-cased runs of two or more word characters (token_pattern
\* \b\w\w+\b).  Two texts share a bigram only if they share a unigram, so the
\* unigrams decide whether two TF-IDF vectors have a feature in common.
Features(text) ==
  LET toks == FindWords(Lower(text), 1, "")
  IN  {toks[i] : i \in {j \in 1..Len(toks) : Len(toks[j]) >= 2}}

\* a fit that accepts a column of zero rows
FitFails_OnlyOnDocuments(column) ==
  column # <<>> /\ \A i \in 1..Len(column) : Features(column[i]) = {}

\* fit_transform raises ValueError("empty vocabulary") when no document of
\* the column yields a feature; a column of zero rows is such a column.
FitFails(column) == \A i \in 1..Len(column) : Features(column[i]) = {}

\* the document-term matrix, row by row: the features with non-zero weight
fit_transform(column) == [i \in 1..Len(column) |-> Features(column[i])]

Get(index, key) == IF key \in DOMAIN index THEN index[key] ELSE {}

\* an indexing loop that stops after the first token
AddAll_FirstOnly(inv, toks, pmid) ==
  IF toks = <<>> THEN inv
  ELSE [t \in DOMAIN inv \cup {Head(toks)} |->
          Get(inv, t) \cup (IF t = Head(toks) THEN {pmid} ELSE {})]

\* for tok in toks: inv[tok].add(pmid)
RECURSIVE AddAll(_, _, _)
AddAll(inv, toks, pmid) ==
  IF toks = <<>> THEN inv
  ELSE AddAll([t \in DOMAIN inv \cup {Head(toks)} |->
                 Get(inv, t) \cup (IF t = Head(toks) THEN {pmid} ELSE {})],
              Tail(toks), pmid)

\* [tokenize(s) for s in re.split(r"[\.\!?]", abstract) if s.strip()]
RECURSIVE TokenizeNonBlank(_)
TokenizeNonBlank(parts) ==
  IF parts = <<>> THEN <<>>
  ELSE (IF Strip(Head(parts)) = "" THEN <<>> ELSE <<tokenize(Head(parts))>>)
         \o TokenizeNonBlank(Tail(parts))

SentenceTokens(abstract) == TokenizeNonBlank(Split(abstract, {".", "!", "?"}))

EmptyMap == [t \in {} |-> {}]

\* the loop of __init__ over df.iterrows(), from row i on
RECURSIVE BuildFrom(_, _, _)
BuildFrom(table, i, e) ==
  IF i > Len(table) THEN e
  ELSE LET row == table[i]
           pmid == row.PMID
       IN  BuildFrom(table, i + 1,
             [id_to_pos |-> [q \in DOMAIN e.id_to_pos \cup {pmid} |->
                               IF q = pmid THEN i - 1 ELSE e.id_to_pos[q]],
              inv_ti |-> AddAll(e.inv_ti, tokenize(row.Title), pmid),
              inv_ab |-> AddAll(e.inv_ab, tokenize(row.Abstract), pmid),
              sentences |-> [q \in DOMAIN e.sentences \cup {pmid} |->
                               IF q = pmid THEN SentenceTokens(row.Abstract)
                               ELSE e.sentences[q]]])

Column(table, field) == [i \in 1..Len(table) |-> table[i][field]]

(***************************************************************************)
(* pt_search.py: SearchEngine._candidate_pmids                             *)
(***************************************************************************)

index_for(field, ti, ab) ==
  IF field = "ti" THEN ti
  ELSE IF field = "ab" THEN ab
  ELSE [t \in DOMAIN ti \cup DOMAIN ab |-> Get(ti, t) \cup Get(ab, t)]

\* group_set: the union of the index entries of the group's terms
GroupSet(index, group) == UNION {Get(index, group[i]) : i \in 1..Len(group)}

\* an AND that never narrows the candidates
IntersectAll_Skipped(cand, sets) == cand

RECURSIVE IntersectAll(_, _)
IntersectAll(cand, sets) ==
  IF sets = <<>> THEN cand ELSE IntersectAll(cand \cap Head(sets), Tail(sets))

\* lookups written index[term], which add a key for every unknown term
AfterLookups_Inserting(index, query_groups) ==
  [t \in DOMAIN index \cup Range(Flatten(query_groups)) |-> Get(index, t)]

\* the index after `index.get(term, set())` for every term of every group:
\* get adds no key to the defaultdict
AfterLookups(index, query_groups) == index

\* a NOT that subtracts only the documents matching every group
candidate_pmids_NotOfAnd(table, ti, ab, query_groups, op, fields) ==
  LET all_pmids == {table[i].PMID : i \in 1..Len(table)}
      index == index_for(fields, ti, ab)
      sets == [g \in 1..Len(query_groups) |-> GroupSet(index, query_groups[g])]
  IN  IF query_groups = <<>> THEN all_pmids
      ELSE IF op = "AND" THEN IntersectAll(all_pmids, sets)
      ELSE IF op = "OR" THEN UNION Range(sets)
      ELSE IF op = "NOT" THEN all_pmids \ IntersectAll(all_pmids, sets)
      ELSE all_pmids

\* a selection without the early return for an empty list of groups
candidate_pmids_NoEmptyCase(table, ti, ab, query_groups, op, fields) ==
  LET all_pmids == {table[i].PMID : i \in 1..Len(table)}
      index == index_for(fields, ti, ab)
      sets == [g \in 1..Len(query_groups) |-> GroupSet(index, query_groups[g])]
  IN  IF op = "AND" THEN IntersectAll(all_pmids, sets)
      ELSE IF op = "OR" THEN UNION Range(sets)
      ELSE IF op = "NOT" THEN all_pmids \ UNION Range(sets)
      ELSE all_pmids

\* the value _candidate_pmids returns; it raises nothing
candidate_pmids(table, ti, ab, query_groups, op, fields) ==
  LET all_pmids == {table[i].PMID : i \in 1..Len(table)}
      index == index_for(fields, ti, ab)
      sets == [g \in 1..Len(query_groups) |-> GroupSet(index, query_groups[g])]
  IN  IF query_groups = <<>> THEN all_pmids
      ELSE IF op = "AND" THEN IntersectAll(all_pmids, sets)
      ELSE IF op = "OR" THEN UNION Range(sets)
      ELSE IF op = "NOT" THEN all_pmids \ UNION Range(sets)
      ELSE all_pmids

(***************************************************************************)
(* pt_search.py: SearchEngine._apply_filters                               *)
(***************************************************************************)

RowOf(table, pmid) == table[CHOOSE i \in 1..Len(table) : table[i].PMID = pmid]

\* a year_min rule with the comparison reversed
YearBelowMin_Reversed(year, year_min) == notna(year) /\ year[1] > year_min

\* `year is not None and year < year_min`
YearBelowMin(year, year_min) == notna(year) /\ year[1] < year_min

\* a year_max rule that drops nothing
YearAboveMax_Ignored(year, year_max) == FALSE

\* `year_max is not None and year is not None and year > year_max`
YearAboveMax(year, year_max) ==
  notna(year_max) /\ notna(year) /\ year[1] > year_max[1]

\* a journal_inc rule that compares the substrings as they are written
JournalIncMisses_CaseSensitive(journal, journal_inc) ==
  journal_inc # <<>>
    /\ ~\E j \in 1..Len(journal_inc) : Contains(journal, journal_inc[j])

\* `journal_inc and not any(j.lower() in journal for j in journal_inc)`
JournalIncMisses(journal, journal_inc) ==
  journal_inc # <<>>
    /\ ~\E j \in 1..Len(journal_inc) : Contains(journal, Lower(journal_inc[j]))

\* a content that always holds the title and the abstract
Content_AllFields(row, fields) == Lower(row.Title \o " " \o row.Abstract)

\* " ".join(text_fields).lower()
Content(row, fields) ==
  Lower((IF fields \in {"ti", "tiab"} THEN row.Title ELSE "")
        \o (IF fields = "tiab" THEN " " ELSE "")
        \o (IF fields \in {"ab", "tiab"} THEN row.Abstract ELSE ""))

\* the row passes every rule of the loop body (no `continue` is taken)
PassesFilters(row, f, fields) ==
  LET year_min == f.year_min
      year_max == f.year_max
      journal_inc == f.journal_inc
      journal_exc == f.journal_exc
      author == f.author
      has_doi == f.has_doi
      exclude_terms == f.exclude_terms
      year == row.Year
      journal == Lower(row.Journal)
      content == Content(row, fields)
  IN  /\ ~YearBelowMin(year, year_min)
      /\ ~YearAboveMax(year, year_max)
      /\ ~JournalIncMisses(journal, journal_inc)
      /\ ~(journal_exc # <<>>
           /\ \E j \in 1..Len(journal_exc) : Contains(journal, Lower(journal_exc[j])))
      /\ ~(author # "" /\ ~Contains(Lower(row.Authors), Lower(author)))
      /\ ~(has_doi /\ row.DOI = "")
      /\ ~\E t \in 1..Len(exclude_terms) : Contains(content, Lower(exclude_terms[t]))

apply_filters(table, pmids, f, fields) ==
  {pmid \in pmids :
     PassesFilters(RowOf(table, pmid), f, fields)}

(***************************************************************************)
(* pt_search.py: boosts and SearchEngine.search                            *)
(***************************************************************************)

Min(a, b) == IF a < b THEN a ELSE b
Max(a, b) == IF a < b THEN b ELSE a

\* sum(1 for t in terms if t in sent)
Hits(terms, sent) == Cardinality({i \in 1..Len(terms) : terms[i] \in Range(sent)})

proximity(sents, pmid, terms) ==
  LET sentences == IF pmid \in DOMAIN sents THEN sents[pmid] ELSE <<>>
  IN  \E s \in 1..Len(sentences) : Hits(terms, sentences[s]) >= 2

\* a domain boost without the cap
DomainBoost_Uncapped(abstract) ==
  LET text == Lower(abstract)
      count == Cardinality({k \in 1..Len(DOMAIN_KEYWORDS) :
                              Contains(text, DOMAIN_KEYWORDS[k])})
  IN  100 * count

\* min(0.2, 0.1 * count), in thousandths
DomainBoost(abstract) ==
  LET text == Lower(abstract)
      count == Cardinality({k \in 1..Len(DOMAIN_KEYWORDS) :
                              Contains(text, DOMAIN_KEYWORDS[k])})
  IN  Min(200, 100 * count)

\* _domain_boost(abstract), tabulated once for the texts of RawPool
DomainBoostOf == [t \in PoolTexts |-> DomainBoost(t)]

domain_boost(abstract) ==
  IF abstract \in DOMAIN DomainBoostOf THEN DomainBoostOf[abstract]
  ELSE DomainBoost(abstract)

\* a recency bonus computed with floor division
recency_FloorDiv(year) ==
  IF year <= 2020 THEN 0
  ELSE IF year >= 2025 THEN 200
  ELSE ((year - 2020) \div 5) * 200

\* the recency bonus of a year that is present, in thousandths
recency(year) ==
  IF year <= 2020 THEN 0
  ELSE IF year >= 2025 THEN 200
  ELSE ((year - 2020) * 200) \div 5

DigitSeq == <<"0", "1", "2", "3", "4", "5", "6", "7", "8", "9">>

\* f"{v:.2f}" for a bonus v given in thousandths (a multiple of 10 below 1)
Fmt2(v) == "0." \o DigitSeq[(v \div 100) + 1] \o DigitSeq[((v \div 10) % 10) + 1]

\* " ".join(parts)
RECURSIVE Join(_)
Join(parts) ==
  IF parts = <<>> THEN ""
  ELSE IF Len(parts) = 1 THEN parts[1]
  ELSE parts[1] \o " " \o Join(Tail(parts))

\* the publication types the review check looks at
pub_types(row) ==
  IF row.PublicationTypes_norm # <<>> THEN row.PublicationTypes_norm
  ELSE IF row.PublicationTypes.kind = "str" /\ row.PublicationTypes.v # ""
    THEN StripNonEmpty(Split(row.PublicationTypes.v, {";", ","}))
  ELSE <<>>

\* re.search(r"review|meta-analysis", pt, re.I) for some pt
IsReview(row) ==
  LET types == pub_types(row)
  IN  \E i \in 1..Len(types) :
        LET pt == Lower(types[i])
        IN  Contains(pt, "review") \/ Contains(pt, "meta-analysis")

\* The orders in which iterating a set of ids can visit it: a set of str has
\* no order of its own (it follows the hashes of the process).  Two of them,
\* one the reverse of the other.
SetOrders(S) ==
  LET up == SortedStrings(S)
  IN  {up, Reverse(up)}

\* rows taken one by one in the iteration order of the id set
RowsIn_SetOrder(table, pmids) ==
  [i \in 1..Len(pmids) |-> RowOf(table, pmids[i])]

\* self.df[self.df["PMID"].isin(pmids)]: the rows of the table whose id is in
\* the set, in table order; pmids is the set in its iteration order
RowsIn(table, pmids) == SelectRows(table, Range(pmids))

\* The cosines cosine_similarity can return for one document: 0 when the
\* field is not selected or the query and the document share no feature,
\* and otherwise some positive value (in hundredths).  The positive values
\* are sampled: two for a title, one for an abstract.
CosPositive == {50, 100}

CosPositiveAbstract == {50}

CosValues(selected, qfeatures, dfeatures, positive) ==
  IF selected /\ qfeatures \cap dfeatures # {} THEN positive ELSE {0}

\* one iteration of the loop over the surviving rows, up to the cosines:
\* matched, expl and the bonuses added to the score
RowBonus(row, flat_terms, sents) ==
  LET ti_tokens == Range(tokenize(row.Title))
      ab_tokens == Range(tokenize(row.Abstract))
      terms == Range(flat_terms)
      title == IF terms \cap ti_tokens # {} THEN 200 ELSE 0
      rec == IF notna(row.Year) THEN recency(row.Year[1]) ELSE 0
      review == IF IsReview(row) THEN 200 ELSE 0
      dom == domain_boost(row.Abstract)
      prox == IF proximity(sents, row.PMID, flat_terms) THEN 150 ELSE 0
  IN  [pmid |-> row.PMID, year |-> row.Year,
       title |-> title, rec |-> rec, review |-> review, dom |-> dom,
       prox |-> prox,
       matched |-> SortedStrings({t \in terms : t \in ti_tokens \/ t \in ab_tokens}),
       expl |->
         (IF title # 0 THEN <<"title">> ELSE <<>>)
         \o (IF rec # 0 THEN <<"recency+" \o Fmt2(rec)>> ELSE <<>>)
         \o (IF review # 0 THEN <<"review">> ELSE <<>>)
         \o (IF dom # 0 THEN <<"domain+" \o Fmt2(dom)>> ELSE <<>>)
         \o (IF prox # 0 THEN <<"proximity">> ELSE <<>>)]

\* the score of a row whose proximity bonus is recorded and not added
Score_NoProximity(b, ct, ca) ==
  12 * ct + 8 * ca + b.title + b.rec + b.review + b.dom

\* base_scores[i] = 1.2 * ct + 0.8 * ca, plus every `score +=` of the loop
Score(b, ct, ca) ==
  12 * ct + 8 * ca + b.title + b.rec + b.review + b.dom + b.prox

\* the record appended to results
ResultRecord(row, b, ct, ca) ==
  [pmid |-> row.PMID, title |-> row.Title, abstract |-> row.Abstract,
   journal |-> row.Journal, year |-> row.Year, doi |-> row.DOI,
   citation_apa |-> row.citation_apa,
   score |-> Score(b, ct, ca),
   cos_title |-> ct, cos_abstract |-> ca,
   matched_terms |-> b.matched,
   explanation |-> b.expl,
   abstract_len |-> row.Abstract_len,
   has_doi |-> IF row.DOI # "" THEN 1 ELSE 0]

\* a search that goes on with no document left
EarlyReturn_Never(pmids) == FALSE

\* `if not pmids: return []`
EarlyReturn(pmids) == pmids = {}

\* cosine_similarity raises ValueError on a matrix of zero rows
CosineRaises(pmids, fields) == pmids = {} /\ fields \in {"ti", "ab", "tiab"}

\* `r["year"] or 0` raises TypeError on pd.NA (its truth value is ambiguous)
SortRaises(results) == \E i \in 1..Len(results) : ~notna(results[i].year)

\* a sort key without the year
SortKey_NoYear(r) == <<0 - r.score, 0, 0 - r.abstract_len, 0 - r.has_doi>>

\* the sort key (-score, -(year or 0), -abstract_len, -has_doi)
SortKey(r) == <<0 - r.score, 0 - r.year[1], 0 - r.abstract_len, 0 - r.has_doi>>

RECURSIVE TupleLess(_, _, _)
TupleLess(a, b, i) ==
  IF i > Len(a) THEN FALSE
  ELSE IF a[i] # b[i] THEN a[i] < b[i]
  ELSE TupleLess(a, b, i + 1)

\* list.sort is stable: r goes behind every element whose key is not greater
RECURSIVE InsertByKey(_, _)
InsertByKey(sorted, r) ==
  IF sorted = <<>> THEN <<r>>
  ELSE IF TupleLess(SortKey(r), SortKey(Head(sorted)), 1) THEN <<r>> \o sorted
  ELSE <<Head(sorted)>> \o InsertByKey(Tail(sorted), r)

RECURSIVE SortResults(_, _)
SortResults(results, acc) ==
  IF results = <<>> THEN acc
  ELSE SortResults(Tail(results), InsertByKey(acc, Head(results)))

\* results[:k]
Truncate(results, k) ==
  IF k >= 0 THEN SubSeq(results, 1, Min(k, Len(results)))
  ELSE SubSeq(results, 1, Max(0, Len(results) + k))

(***************************************************************************)
(* pt_search.py: facets, yearly_counts, coauthor_network                   *)
(***************************************************************************)

\* all orders of the elements of S
RECURSIVE Orderings(_)
Orderings(S) ==
  IF S = {} THEN {<<>>}
  ELSE UNION {{<<x>> \o rest : rest \in Orderings(S \ {x})} : x \in S}

CountOf(series, v) == Cardinality({i \in 1..Len(series) : series[i] = v})

\* series.value_counts(): one row per distinct value, by count descending.
\* The order among values of equal count is not specified, so this is the
\* set of the tables it can return.
value_counts(series) ==
  {[i \in 1..Len(o) |-> [value |-> o[i], count |-> CountOf(series, o[i])]] :
     o \in {p \in Orderings(Range(series)) :
              \A i \in 1..(Len(p) - 1) :
                CountOf(series, p[i]) >= CountOf(series, p[i + 1])}}

\* str(year) of a four-digit year
YearStr(y) ==
  DigitSeq[(y \div 1000) + 1] \o DigitSeq[((y \div 100) % 10) + 1]
    \o DigitSeq[((y \div 10) % 10) + 1] \o DigitSeq[(y % 10) + 1]

\* x.split()[-1]
LastWord(x) ==
  LET parts == StripNonEmpty(Split(x, Whitespace)) IN parts[Len(parts)]

\* the series facets counts, without its missing values (value_counts drops
\* them): the journals, the years >= 2020, or the last words of the authors
facet_series(table, by) ==
  IF by = "journal" THEN [i \in 1..Len(table) |-> table[i].Journal]
  ELSE IF by = "year"
    THEN LET kept == SelectSeq(table,
                       LAMBDA r : notna(r.Year) /\ r.Year[1] >= 2020)
         IN  [i \in 1..Len(kept) |-> YearStr(kept[i].Year[1])]
  ELSE IF by = "author"
    THEN Flatten([i \in 1..Len(table) |->
                    [j \in 1..Len(table[i].Authors_list) |->
                       LastWord(table[i].Authors_list[j])]])
  ELSE <<>>

\* a facets that accepts every dimension
FacetRaises_Never(by) == FALSE

\* else: raise ValueError("Invalid facet")
FacetRaises(by) == by \notin {"journal", "year", "author"}

\* .head(20)
FacetLimit == 20

RECURSIVE SumCounts(_)
SumCounts(rows) ==
  IF rows = <<>> THEN 0 ELSE Head(rows).count + SumCounts(Tail(rows))

\* percentages against the number of rows of the corpus
PctTotal_Corpus(counts, table) == Len(table)

\* counts.sum(), the sum over the rows head(20) kept
PctTotal(counts, table) == SumCounts(counts)

\* the table facets returns for one value_counts result; a percentage
\* counts.values / counts.sum() * 100 is kept as the fraction num / den
FacetTable(all_counts, table) ==
  LET counts == SubSeq(all_counts, 1, Min(FacetLimit, Len(all_counts)))
  IN  [i \in 1..Len(counts) |->
         [value |-> counts[i].value, count |-> counts[i].count,
          pct |-> [num |-> counts[i].count * 100,
                   den |-> PctTotal(counts, table)]]]

facets(table, by) ==
  {FacetTable(c, table) : c \in value_counts(facet_series(table, by))}

\* insert r before the first row of a greater year
RECURSIVE InsertByYear(_, _)
InsertByYear(sorted, r) ==
  IF sorted = <<>> THEN <<r>>
  ELSE IF r.year < Head(sorted).year THEN <<r>> \o sorted
  ELSE <<Head(sorted)>> \o InsertByYear(Tail(sorted), r)

RECURSIVE SortIndex(_)
SortIndex(S) ==
  IF S = {} THEN <<>>
  ELSE LET r == CHOOSE x \in S : TRUE
       IN  InsertByYear(SortIndex(S \ {r}), r)

\* df[df["Year"] >= 2020]["Year"].value_counts().sort_index()
yearly_counts(table, restrict, pmids) ==
  LET rows == IF restrict THEN SelectRows(table, pmids) ELSE table
      kept == SelectSeq(rows, LAMBDA r : notna(r.Year) /\ r.Year[1] >= 2020)
      years == {kept[i].Year[1] : i \in 1..Len(kept)}
  IN  SortIndex({[year |-> y,
                  count |-> Cardinality({i \in 1..Len(kept) : kept[i].Year[1] = y})] :
                   y \in years})

\* the pairs (a1, a2) the two loops over one author list visit
AuthorPairs(authors) ==
  {<<i, j>> \in (1..Len(authors)) \X (1..Len(authors)) : i < j}

\* the graph coauthor_network builds, as the weight of each edge: every
\* visited pair adds the edge with weight 1 or adds 1 to its weight
coauthor_network(table, pmids) ==
  LET rows == SelectRows(table, pmids)
      visits == UNION {{<<d, pr>> : pr \in AuthorPairs(rows[d].Authors_list)} :
                         d \in 1..Len(rows)}
      ends(v) == {rows[v[1]].Authors_list[v[2][1]],
                  rows[v[1]].Authors_list[v[2][2]]}
  IN  [e \in {ends(v) : v \in visits} |->
         Cardinality({v \in visits : ends(v) = e})]

(***************************************************************************)
(* The inputs of the calls                                                 *)
(***************************************************************************)

Ops == {"AND", "OR", "NOT", "XOR"}

FieldValues == {"ti", "ab", "tiab", "all"}

\* search's defaults: year_min=2020, everything else off
NoFilter ==
  [year_min |-> 2020, year_max |-> NA, journal_inc |-> <<>>,
   journal_exc |-> <<>>, author |-> "", has_doi |-> FALSE,
   exclude_terms |-> <<>>]

Filters ==
  { NoFilter,
    [NoFilter EXCEPT !.year_min = 2018],
    [NoFilter EXCEPT !.year_min = 2022],
    [NoFilter EXCEPT !.year_max = <<2023>>],
    [NoFilter EXCEPT !.journal_inc = <<"GUT">>],
    [NoFilter EXCEPT !.journal_exc = <<"microbes">>],
    [NoFilter EXCEPT !.author = "z"],
    [NoFilter EXCEPT !.has_doi = TRUE],
    [NoFilter EXCEPT !.exclude_terms = <<"Cancer">>] }

\* the dimensions facets is called with: the three it knows and one it does not
FacetNames == {"journal", "year", "author", "keyword"}

\* the year_min values a filter is compared over
YearMins == 2017..2026

\* search's default k, a k that truncates, and k = 0
DefaultK == 30
Limits == {DefaultK, 1, 0}

\* the argument lists of the search calls
SearchArgs ==
  {[query |-> q, op |-> o, fields |-> f, filt |-> NoFilter, k |-> DefaultK] :
     q \in Queries, o \in Ops, f \in FieldValues}
  \cup
  {[query |-> q, op |-> "OR", fields |-> "tiab", filt |-> fl, k |-> k] :
     q \in {<<>>, <<"microRNA", "miRNA">>}, fl \in Filters, k \in Limits}

\* filters with more than one journal, author or DOI rule switched on
CombinedFilters ==
  { [NoFilter EXCEPT !.journal_inc = <<"GUT">>, !.journal_exc = <<"Microbes">>],
    [NoFilter EXCEPT !.year_min = 2018, !.journal_inc = <<"radio", "Gut">>,
                     !.author = "Z", !.has_doi = TRUE],
    [NoFilter EXCEPT !.year_min = 2018, !.author = "ana", !.has_doi = TRUE],
    [NoFilter EXCEPT !.journal_exc = <<"radio", "MICRO">>, !.author = "y",
                     !.exclude_terms = <<"celiac">>] }

\* exclude_terms lists: a term of a title, terms of an abstract and of a
\* title, and a term that spans the end of a title and the start of an
\* abstract
ExcludeLists == {<<"Cancer">>, <<"MUCOSA", "celiac">>, <<"Disease miRNA">>}

FilterArgs ==
  {[filt |-> fl, fields |-> "tiab"] : fl \in Filters \cup CombinedFilters}
  \cup
  {[filt |-> [NoFilter EXCEPT !.exclude_terms = x], fields |-> f] :
     x \in ExcludeLists, f \in FieldValues}

\* the characters of the texts normalize_text is called with: a Greek letter
\* of GREEK_MAP, a combining mark, two kinds of whitespace, a letter and a
\* character with a compatibility decomposition
TextChars == {"β", CombiningAcute, " ", "\n", "a", "²"}

\* the length of the longest text
MaxLen == 3

RECURSIVE TextsUpTo(_)
TextsUpTo(n) ==
  IF n = 0 THEN {""}
  ELSE TextsUpTo(n - 1) \cup {t \o c : t \in TextsUpTo(n - 1), c \in TextChars}

Texts == TextsUpTo(MaxLen)

\* the raw terms expand_query_terms is called with
RawTerms ==
  {"IBD", " miR-21 ", "Celiac  IBD", "coeliac", "TGF-β", "microRNA", ""}

\* the length of the longest list of raw terms
MaxTerms == 2

RECURSIVE TermListsUpTo(_)
TermListsUpTo(n) ==
  IF n = 0 THEN {<<>>}
  ELSE TermListsUpTo(n - 1)
         \cup {l \o <<t>> : l \in TermListsUpTo(n - 1), t \in RawTerms}

TermLists == TermListsUpTo(MaxTerms)

\* the id sets _apply_filters is called with: no id, one id, or all of them
IdSets(all) == {S \in SUBSET all : Cardinality(S) <= 1 \/ S = all}

\* all sequences whose i-th element is drawn from sets[i]
RECURSIVE SeqsOver(_)
SeqsOver(sets) ==
  IF sets = <<>> THEN {<<>>}
  ELSE {<<h>> \o t : h \in Head(sets), t \in SeqsOver(Tail(sets))}

(***************************************************************************)
(* State                                                                   *)
(***************************************************************************)

VARIABLES
  pc,         \* "start", "loaded", "ready", "called", "failed"
  records,    \* the records of the corpus file
  corpus,     \* the table load_corpus returned
  df,         \* self.df
  tfidf_ti,   \* self.tfidf_ti
  tfidf_ab,   \* self.tfidf_ab
  inv_ti,     \* self.inv_ti
  inv_ab,     \* self.inv_ab
  sentences,  \* self.sentences
  id_to_pos,  \* self.id_to_pos
  call,       \* the call in progress: its name and arguments
  out,        \* the list search returned
  results,    \* search: the list `results` after results.sort
  out_ids,    \* the set _candidate_pmids or _apply_filters returned
  facet_table,  \* the table facets returned
  year_counts,  \* the series yearly_counts returned
  graph,        \* the weights of the edges of the graph coauthor_network returned
  err,        \* the exception the call raised, or "none"
  scored      \* search: the bonus variables of each row of the scoring loop

engine == <<df, tfidf_ti, tfidf_ab, inv_ti, inv_ab, sentences, id_to_pos>>

vars == <<pc, records, corpus, df, tfidf_ti, tfidf_ab, inv_ti, inv_ab,
          sentences, id_to_pos, call, out, results, out_ids, facet_table,
          year_counts, graph, err, scored>>

search_out == <<out, results, scored>>

analytics == <<facet_table, year_counts, graph>>

NoCall ==
  [name |-> "none", query |-> <<>>, groups |-> <<>>, op |-> "", fields |-> "",
   filt |-> NoFilter, k |-> 0, ids |-> {}, by |-> "", restrict |-> FALSE,
   text |-> "", norm |-> ""]

Init ==
  /\ pc = "start"
  /\ records \in CorpusFiles
  /\ corpus = <<>>
  /\ df = <<>>
  /\ tfidf_ti = <<>>
  /\ tfidf_ab = <<>>
  /\ inv_ti = EmptyMap
  /\ inv_ab = EmptyMap
  /\ sentences = EmptyMap
  /\ id_to_pos = EmptyMap
  /\ call = NoCall
  /\ out = <<>>
  /\ results = <<>>
  /\ out_ids = {}
  /\ facet_table = <<>>
  /\ year_counts = <<>>
  /\ graph = EmptyMap
  /\ err = "none"
  /\ scored = <<>>

\* load_corpus() on a corpus file that exists
LoadCorpus ==
  /\ pc = "start"
  /\ call' = [NoCall EXCEPT !.name = "load_corpus"]
  /\ IF records = <<>>
       THEN /\ pc' = "failed"
            /\ err' = "ValueError"
            /\ corpus' = corpus
       ELSE /\ pc' = "loaded"
            /\ err' = "none"
            /\ corpus' = load_corpus(records)
  /\ UNCHANGED <<records, engine, search_out, out_ids, analytics>>

\* SearchEngine(table)
Construct(table) ==
  /\ IF FitFails(Column(table, "Title")) \/ FitFails(Column(table, "Abstract"))
       THEN /\ pc' = "failed"
            /\ err' = "ValueError"
            /\ call' = [NoCall EXCEPT !.name = "SearchEngine"]
            /\ UNCHANGED engine
       ELSE LET e == BuildFrom(table, 1,
                       [id_to_pos |-> EmptyMap, inv_ti |-> EmptyMap,
                        inv_ab |-> EmptyMap, sentences |-> EmptyMap])
            IN  /\ pc' = "ready"
                /\ err' = "none"
                /\ call' = NoCall
                /\ df' = table
                /\ tfidf_ti' = fit_transform(Column(table, "Title"))
                /\ tfidf_ab' = fit_transform(Column(table, "Abstract"))
                /\ inv_ti' = e.inv_ti
                /\ inv_ab' = e.inv_ab
                /\ sentences' = e.sentences
                /\ id_to_pos' = e.id_to_pos
  /\ UNCHANGED <<records, corpus, search_out, out_ids, analytics>>

\* main(): engine = SearchEngine(load_corpus())
ConstructLoaded ==
  /\ pc = "loaded"
  /\ Construct(corpus)

\* a table with the contract's columns and zero rows, passed in directly
EmptyTable == <<>>

ConstructDirect ==
  /\ pc = "start"
  /\ Construct(EmptyTable)

\* engine._candidate_pmids(groups, op, fields)
CallCandidates ==
  /\ pc = "ready"
  /\ \E q \in Queries, o \in Ops, f \in FieldValues :
       LET groups == expand_query_terms(q)
       IN  /\ call' = [NoCall EXCEPT !.name = "_candidate_pmids", !.query = q,
                         !.groups = groups, !.op = o, !.fields = f]
           /\ out_ids' = candidate_pmids(df, inv_ti, inv_ab, groups, o, f)
           /\ inv_ti' = IF f = "ti" THEN AfterLookups(inv_ti, groups) ELSE inv_ti
           /\ inv_ab' = IF f = "ab" THEN AfterLookups(inv_ab, groups) ELSE inv_ab
  /\ pc' = "called"
  /\ err' = "none"
  /\ UNCHANGED <<records, corpus, df, tfidf_ti, tfidf_ab, sentences, id_to_pos,
                 search_out, analytics>>

\* engine._apply_filters(pmids, ...)
CallApplyFilters ==
  /\ pc = "ready"
  /\ \E ids \in IdSets({df[i].PMID : i \in 1..Len(df)}), a \in FilterArgs :
       /\ call' = [NoCall EXCEPT !.name = "_apply_filters", !.ids = ids,
                     !.filt = a.filt, !.fields = a.fields]
       /\ out_ids' = apply_filters(df, ids, a.filt, a.fields)
  /\ pc' = "called"
  /\ err' = "none"
  /\ UNCHANGED <<records, corpus, engine, search_out, analytics>>

\* engine.search(query, op, fields, ..., k)
CallSearch ==
  /\ pc = "ready"
  /\ \E a \in SearchArgs :
       LET groups == expand_query_terms(a.query)
           cand == candidate_pmids(df, inv_ti, inv_ab, groups, a.op, a.fields)
           pmids == apply_filters(df, cand, a.filt, a.fields)
           flat_terms == Flatten(groups)
           qf == Features(Join(flat_terms))
           ti_of == [p \in pmids |->
                       CosValues(a.fields \in {"ti", "tiab"}, qf,
                                 tfidf_ti[id_to_pos[p] + 1], CosPositive)]
           ab_of == [p \in pmids |->
                       CosValues(a.fields \in {"ab", "tiab"}, qf,
                                 tfidf_ab[id_to_pos[p] + 1],
                                 CosPositiveAbstract)]
           bonus_of == [p \in pmids |->
                          RowBonus(RowOf(df, p), flat_terms, sentences)]
       IN  /\ call' = [NoCall EXCEPT !.name = "search", !.query = a.query,
                         !.groups = groups, !.op = a.op, !.fields = a.fields,
                         !.filt = a.filt, !.k = a.k]
           /\ inv_ti' = IF a.fields = "ti" THEN AfterLookups(inv_ti, groups)
                         ELSE inv_ti
           /\ inv_ab' = IF a.fields = "ab" THEN AfterLookups(inv_ab, groups)
                         ELSE inv_ab
           /\ IF EarlyReturn(pmids)
                THEN /\ out' = <<>>
                     /\ results' = <<>>
                     /\ err' = "none"
                     /\ scored' = <<>>
                ELSE IF CosineRaises(pmids, a.fields)
                THEN /\ out' = <<>>
                     /\ results' = <<>>
                     /\ err' = "ValueError"
                     /\ scored' = <<>>
                ELSE \E order \in SetOrders(pmids) :
                       LET rows == RowsIn(df, order)
                           ti_allowed == [i \in 1..Len(rows) |-> ti_of[rows[i].PMID]]
                           ab_allowed == [i \in 1..Len(rows) |-> ab_of[rows[i].PMID]]
                       IN  \E cos_ti \in SeqsOver(ti_allowed),
                              cos_ab \in SeqsOver(ab_allowed) :
                             LET unsorted ==
                                   [i \in 1..Len(rows) |->
                                      ResultRecord(rows[i], bonus_of[rows[i].PMID],
                                                   cos_ti[i], cos_ab[i])]
                                 sorted == SortResults(unsorted, <<>>)
                             IN  /\ scored' = [i \in 1..Len(rows) |->
                                                 bonus_of[rows[i].PMID]]
                                 /\ IF SortRaises(unsorted)
                                      THEN /\ err' = "TypeError"
                                           /\ results' = unsorted
                                           /\ out' = <<>>
                                      ELSE /\ err' = "none"
                                           /\ results' = sorted
                                           /\ out' = Truncate(sorted, a.k)
  /\ pc' = "called"
  /\ UNCHANGED <<records, corpus, df, tfidf_ti, tfidf_ab, sentences, id_to_pos,
                 out_ids, analytics>>

\* engine.facets(by)
CallFacets ==
  /\ pc = "ready"
  /\ \E by \in FacetNames :
       /\ call' = [NoCall EXCEPT !.name = "facets", !.by = by]
       /\ IF FacetRaises(by)
            THEN /\ err' = "ValueError"
                 /\ facet_table' = <<>>
            ELSE /\ err' = "none"
                 /\ facet_table' \in facets(df, by)
  /\ pc' = "called"
  /\ UNCHANGED <<records, corpus, engine, search_out, out_ids, year_counts, graph>>

\* engine.yearly_counts(pmids)
CallYearlyCounts ==
  /\ pc = "ready"
  /\ \E restrict \in BOOLEAN, ids \in SUBSET {df[i].PMID : i \in 1..Len(df)} :
       /\ restrict \/ ids = {}
       /\ call' = [NoCall EXCEPT !.name = "yearly_counts", !.ids = ids,
                     !.restrict = restrict]
       /\ year_counts' = yearly_counts(df, restrict, ids)
  /\ pc' = "called"
  /\ err' = "none"
  /\ UNCHANGED <<records, corpus, engine, search_out, out_ids, facet_table, graph>>

\* engine.coauthor_network(pmids)
CallCoauthorNetwork ==
  /\ pc = "ready"
  /\ \E ids \in SUBSET {df[i].PMID : i \in 1..Len(df)} :
       /\ call' = [NoCall EXCEPT !.name = "coauthor_network", !.ids = ids]
       /\ graph' = coauthor_network(df, ids)
  /\ pc' = "called"
  /\ err' = "none"
  /\ UNCHANGED <<records, corpus, engine, search_out, out_ids, facet_table,
                 year_counts>>

\* the caller is done with the result (run_search prints it and returns)
Return ==
  /\ pc = "called"
  /\ pc' = "ready"
  /\ call' = NoCall
  /\ out' = <<>>
  /\ results' = <<>>
  /\ out_ids' = {}
  /\ facet_table' = <<>>
  /\ year_counts' = <<>>
  /\ graph' = EmptyMap
  /\ err' = "none"
  /\ scored' = <<>>
  /\ UNCHANGED <<records, corpus, engine>>

Next ==
  \/ LoadCorpus
  \/ ConstructLoaded
  \/ ConstructDirect
  \/ CallCandidates
  \/ CallApplyFilters
  \/ CallSearch
  \/ CallFacets
  \/ CallYearlyCounts
  \/ CallCoauthorNetwork
  \/ Return

Spec == Init /\ [][Next]_vars

(***************************************************************************)
(* The functions of text_utils.py, called on their own                     *)
(***************************************************************************)

TextInit ==
  /\ pc = "start"
  /\ records = <<>>
  /\ corpus = <<>>
  /\ df = <<>>
  /\ tfidf_ti = <<>>
  /\ tfidf_ab = <<>>
  /\ inv_ti = EmptyMap
  /\ inv_ab = EmptyMap
  /\ sentences = EmptyMap
  /\ id_to_pos = EmptyMap
  /\ call = NoCall
  /\ out = <<>>
  /\ results = <<>>
  /\ out_ids = {}
  /\ facet_table = <<>>
  /\ year_counts = <<>>
  /\ graph = EmptyMap
  /\ err = "none"
  /\ scored = <<>>

\* normalize_text(text)
CallNormalizeText ==
  /\ pc = "start"
  /\ \E x \in Texts :
       call' = [NoCall EXCEPT !.name = "normalize_text", !.text = x,
                  !.norm = normalize_text(x)]
  /\ pc' = "called"
  /\ UNCHANGED <<records, corpus, engine, search_out, out_ids, analytics, err>>

\* expand_query_terms(terms)
CallExpandQueryTerms ==
  /\ pc = "start"
  /\ \E terms \in TermLists :
       call' = [NoCall EXCEPT !.name = "expand_query_terms", !.query = terms,
                  !.groups = expand_query_terms(terms)]
  /\ pc' = "called"
  /\ UNCHANGED <<records, corpus, engine, search_out, out_ids, analytics, err>>

\* the caller has the value
TextReturn ==
  /\ pc = "called"
  /\ pc' = "start"
  /\ call' = NoCall
  /\ UNCHANGED <<records, corpus, engine, search_out, out_ids, analytics, err>>

TextNext ==
  \/ CallNormalizeText
  \/ CallExpandQueryTerms
  \/ TextReturn

TextSpec == TextInit /\ [][TextNext]_vars

(***************************************************************************)
(* Properties                                                              *)
(***************************************************************************)

Called(name) == pc = "called" /\ call.name = name

AllPmids == {df[i].PMID : i \in 1..Len(df)}

HasPhrase(row, phrase) ==
  Contains(Lower(row.Title), phrase) \/ Contains(Lower(row.Abstract), phrase)

\* C1: candidate selection for the query ["IBD"] over "tiab" selects every
\* document whose title or abstract contains "inflammatory bowel disease".
C1_IbdSelectsPhraseDocuments ==
  (Called("_candidate_pmids") /\ call.query = <<"IBD">> /\ call.fields = "tiab"
     /\ call.op \in {"AND", "OR"})
  => \A i \in 1..Len(df) :
       HasPhrase(df[i], "inflammatory bowel disease") => df[i].PMID \in out_ids

\* C2: the metadata filter keeps no document whose Year is missing (a
\* year_min is always given).
C2_MissingYearExcluded ==
  Called("_apply_filters") => \A p \in out_ids : notna(RowOf(df, p).Year)

\* C3: candidate selection with non-empty groups and an operator other than
\* AND, OR, NOT raises an error and returns no set.
C3_InvalidOperatorRejected ==
  (Called("_candidate_pmids") /\ call.groups # <<>>
     /\ call.op \notin {"AND", "OR", "NOT"})
  => err # "none"

\* C4 as stated: for every list of groups, the empty list included,
\* candidates(g, NOT, f) = all ids minus candidates(g, OR, f).
C4_NotIsComplementOfOr_AllGroups ==
  (Called("_candidate_pmids") /\ call.op = "NOT")
  => out_ids = AllPmids \ candidate_pmids(df, inv_ti, inv_ab, call.groups, "OR",
                                      call.fields)

\* C4 (amended): for every non-empty list of groups,
\* candidates(g, NOT, f) = all ids minus candidates(g, OR, f).
C4_NotIsComplementOfOr ==
  (Called("_candidate_pmids") /\ call.op = "NOT" /\ call.groups # <<>>)
  => out_ids = AllPmids \ candidate_pmids(df, inv_ti, inv_ab, call.groups, "OR",
                                      call.fields)

\* a NOT selection that keeps some documents and drops others
C4_Witness ==
  /\ Called("_candidate_pmids") /\ call.op = "NOT" /\ call.groups # <<>>
  /\ out_ids # {} /\ out_ids # AllPmids

\* C5: for every list of groups and every fields value,
\* candidates(g, AND, f) is a subset of candidates(g, OR, f).
C5_AndSubsetOfOr ==
  (Called("_candidate_pmids") /\ call.op = "AND")
  => out_ids \subseteq candidate_pmids(df, inv_ti, inv_ab, call.groups, "OR",
                                   call.fields)

\* an AND selection over two groups that is non-empty and strictly inside
\* the OR selection
C5_Witness ==
  /\ Called("_candidate_pmids") /\ call.op = "AND" /\ Len(call.groups) = 2
  /\ out_ids # {}
  /\ out_ids # candidate_pmids(df, inv_ti, inv_ab, call.groups, "OR", call.fields)

\* C6: no engine exists over zero documents: constructing from a zero-row
\* table fails, and so does loading a corpus file without records.
C6_NoEngineOverEmptyCorpus ==
  /\ pc \in {"ready", "called"} => Len(df) > 0
  /\ (call.name = "SearchEngine" /\ corpus = <<>>) =>
       (pc = "failed" /\ err = "ValueError")
  /\ (call.name = "load_corpus" /\ records = <<>>) =>
       (pc = "failed" /\ err = "ValueError")

\* the constructor was given a zero-row table and raised
C6_Witness ==
  pc = "failed" /\ call.name = "SearchEngine" /\ corpus = <<>> /\ df = <<>>

\* C7: a search whose surviving documents include one without a Year
\* completes without error, and at equal score no missing-year document is
\* placed before a dated one.
C7_MissingYearSortsAsZero ==
  (Called("search") /\ \E i \in 1..Len(scored) : ~notna(scored[i].year))
  => /\ err = "none"
     /\ \A i, j \in 1..Len(out) :
          (i < j /\ out[i].score = out[j].score)
            => ~(~notna(out[i].year) /\ notna(out[j].year))

YearOrZero(r) == IF notna(r.year) THEN r.year[1] ELSE 0

\* a is not behind b in the order (score, year, abstract length, DOI flag),
\* each component descending
KeyNotLess(a, b) ==
  \/ a.score > b.score
  \/ /\ a.score = b.score
     /\ \/ YearOrZero(a) > YearOrZero(b)
        \/ /\ YearOrZero(a) = YearOrZero(b)
           /\ \/ a.abstract_len > b.abstract_len
              \/ /\ a.abstract_len = b.abstract_len
                 /\ a.has_doi >= b.has_doi

\* C8: the list search returns is ordered by (score, year, abstract length,
\* DOI flag), each descending: every result's key is >= its successor's.
C8_ResultsSortedByKey ==
  (Called("search") /\ err = "none")
  => \A i \in 1..(Len(out) - 1) : KeyNotLess(out[i], out[i + 1])

\* two results of equal score, the one of the later corpus row first
\* because its year is greater
C8_Witness ==
  /\ Called("search") /\ err = "none"
  /\ \E i \in 1..(Len(out) - 1) :
       /\ out[i].score = out[i + 1].score
       /\ YearOrZero(out[i]) > YearOrZero(out[i + 1])
       /\ id_to_pos[out[i].pmid] > id_to_pos[out[i + 1].pmid]

\* C9: the proximity bonus is applied to a document if and only if one
\* sentence of its abstract contains at least 2 distinct flattened query
\* terms.
C9_ProximityIffTwoDistinctTerms ==
  Called("search")
  => \A i \in 1..Len(scored) :
       (scored[i].prox # 0)
         <=> \E s \in 1..Len(sentences[scored[i].pmid]) :
               Cardinality(Range(Flatten(call.groups))
                             \cap Range(sentences[scored[i].pmid][s])) >= 2

\* C10: the recency bonus is 0 for year <= 2020, 0.2 for year >= 2025,
\* ((year - 2020) / 5) * 0.2 in between, strictly increasing over 2020..2025,
\* and 0 for a missing year.
C10_RecencyBonus ==
  Called("search")
  => \A i \in 1..Len(scored) :
       LET y == scored[i].year
           r == scored[i].rec
       IN  /\ ~notna(y) => r = 0
           /\ notna(y) =>
                /\ y[1] <= 2020 => r = 0
                /\ y[1] >= 2025 => r = 200
                /\ (2020 < y[1] /\ y[1] < 2025) => 5 * r = (y[1] - 2020) * 200
                /\ \A j \in 1..Len(scored) :
                     (notna(scored[j].year) /\ 2020 <= y[1]
                        /\ y[1] < scored[j].year[1] /\ scored[j].year[1] <= 2025)
                       => r < scored[j].rec

\* one search scores a document without a Year and two documents of
\* different years inside 2020..2025
C10_Witness ==
  /\ Called("search")
  /\ \E i, j, m \in 1..Len(scored) :
       /\ ~notna(scored[i].year)
       /\ notna(scored[j].year) /\ notna(scored[m].year)
       /\ 2020 < scored[j].year[1] /\ scored[j].year[1] < scored[m].year[1]
       /\ scored[m].year[1] < 2025

\* C11: the metadata filter is monotone in year_min: with the id set and all
\* other arguments equal, filtering with any year_min at or above the call's
\* gives a subset of the call's result.
C11_YearMinMonotone ==
  Called("_apply_filters")
  => \A y \in YearMins :
       y >= call.filt.year_min
         => apply_filters(df, call.ids, [call.filt EXCEPT !.year_min = y],
                          call.fields) \subseteq out_ids

\* raising year_min drops some of the call's documents and keeps others
C11_Witness ==
  /\ Called("_apply_filters")
  /\ \E y \in YearMins :
       LET narrower == apply_filters(df, call.ids,
                                     [call.filt EXCEPT !.year_min = y],
                                     call.fields)
       IN  y > call.filt.year_min /\ narrower # {} /\ narrower # out_ids

KeyTied(a, b) ==
  /\ a.score = b.score /\ YearOrZero(a) = YearOrZero(b)
  /\ a.abstract_len = b.abstract_len /\ a.has_doi = b.has_doi

\* C12: search is deterministic: the ranking holds every surviving document
\* once, its order is fixed by the sort keys and, between results whose keys
\* are fully tied, by the position in the corpus (never by the iteration
\* order of the id set), and the returned list is its prefix.
C12_SearchDeterministic ==
  (Called("search") /\ err = "none")
  => /\ Len(results) = Len(scored)
     /\ {results[i].pmid : i \in 1..Len(results)}
          = {scored[i].pmid : i \in 1..Len(scored)}
     /\ \A i \in 1..(Len(results) - 1) :
          /\ KeyNotLess(results[i], results[i + 1])
          /\ KeyTied(results[i], results[i + 1])
               => id_to_pos[results[i].pmid] < id_to_pos[results[i + 1].pmid]
     /\ Len(out) <= Len(results)
     /\ out = SubSeq(results, 1, Len(out))

\* a returned list with two results whose sort keys are fully tied
C12_Witness ==
  /\ Called("search") /\ err = "none"
  /\ \E i \in 1..(Len(out) - 1) : KeyTied(out[i], out[i + 1])

\* the corpus of the end-to-end example: Doc A, Doc B, Doc C
ExampleCorpus == <<RawPool[1], RawPool[2], RawPool[3]>>

ExampleSearch ==
  /\ Called("search") /\ records = ExampleCorpus
  /\ call.query = <<"microRNA">> /\ call.op = "AND" /\ call.fields = "tiab"
  /\ call.filt = NoFilter

\* C13: on the corpus of Doc A, Doc B and Doc C,
\* search(["microRNA"], AND, "tiab", year_min=2020) returns exactly one
\* result, Doc A, whose explanation has "title" and a nonzero recency entry.
C13_ExampleReturnsDocA ==
  ExampleSearch
  => /\ err = "none"
     /\ Len(out) = 1
     /\ out[1].pmid = "A"
     /\ out[1].title = "microRNA biomarkers in celiac disease"
     /\ "title" \in Range(out[1].explanation)
     /\ \E i \in 1..Len(out[1].explanation) :
          LET e == out[1].explanation[i]
          IN  /\ Len(e) > 8
              /\ SubSeq(e, 1, 8) = "recency+"
              /\ e # "recency+0.00"

\* the example search has run and returned Doc A with a positive cosine
C13_Witness ==
  /\ ExampleSearch /\ Len(out) = 1
  /\ out[1].pmid = "A" /\ out[1].cos_title > 0
  /\ "recency+0.04" \in Range(out[1].explanation)

\* C14: once the engine is constructed, no step (a search, facets,
\* yearly_counts, coauthor_network or selection call, or its return) changes
\* the corpus table, the inverted indices, the sentence cache, the
\* id-to-position map or the TF-IDF matrices.
C14_QueriesLeaveEngineFrozen ==
  [][(pc \in {"ready", "called"}) => (UNCHANGED engine)]_vars

\* a search over the title index has looked up a token the index does not
\* hold, on an engine whose index is not empty
C14_Witness ==
  /\ Called("search") /\ call.fields = "ti" /\ DOMAIN inv_ti # {}
  /\ \E t \in Range(Flatten(call.groups)) : t \notin DOMAIN inv_ti

\* C15: for every k >= 0, search returns the first k entries of the full
\* sorted ranking: the output has min(k, number of surviving documents)
\* entries and is a prefix of the ranking (the output of any larger k).
C15_ReturnsFirstK ==
  (Called("search") /\ call.k >= 0)
  => /\ Len(out) = Min(call.k, Len(scored))
     /\ Len(out) <= Len(results)
     /\ out = SubSeq(results, 1, Len(out))

RECURSIVE SumNum(_)
SumNum(rows) ==
  IF rows = <<>> THEN 0 ELSE Head(rows).pct.num + SumNum(Tail(rows))

\* every pct of the table is 100 * count / (sum of the counts in the table)
PctOfReturnedRows(t) ==
  \A i \in 1..Len(t) :
    /\ t[i].pct.den > 0
    /\ t[i].pct.num * SumCounts(t) = 100 * t[i].count * t[i].pct.den

\* the pct column sums to 100: the fractions share one denominator d and
\* their numerators sum to 100 * d (an empty column sums to 0)
PctSumIs100(t) ==
  /\ t # <<>>
  /\ \A i \in 1..Len(t) : t[i].pct.den = t[1].pct.den /\ t[i].pct.den > 0
  /\ SumNum(t) = 100 * t[1].pct.den

\* C16 as stated: for every valid dimension the facet table has at most 20
\* rows, each pct is 100 * count / (sum of the returned counts), and the
\* pct column always sums to 100.
C16_FacetPercentages_Always ==
  (Called("facets") /\ err = "none")
  => /\ Len(facet_table) <= 20
     /\ PctOfReturnedRows(facet_table)
     /\ PctSumIs100(facet_table)

\* C16 (amended): for every valid dimension the facet table has at most 20
\* rows, each pct is 100 * count / (sum of the returned counts), and the
\* pct column sums to 100 whenever the table has at least one row.
C16_FacetPercentages ==
  (Called("facets") /\ err = "none")
  => /\ Len(facet_table) <= 20
     /\ PctOfReturnedRows(facet_table)
     /\ facet_table # <<>> => PctSumIs100(facet_table)

\* a facet table of two rows with different counts, over a corpus that has a
\* row the facet does not count
C16_Witness ==
  /\ Called("facets") /\ err = "none" /\ Len(facet_table) = 2
  /\ facet_table[1].count > facet_table[2].count
  /\ SumCounts(facet_table) # Len(df)

\* C17: facets called with a dimension other than "journal", "year" or
\* "author" fails with the invalid-facet error and returns no table.
C17_InvalidFacetRejected ==
  (Called("facets") /\ call.by \notin {"journal", "year", "author"})
  => err = "ValueError" /\ facet_table = <<>>

\* facets was called with an unknown dimension on a corpus whose journal
\* facet is not empty, and raised
C17_Witness ==
  /\ Called("facets") /\ call.by = "keyword" /\ err = "ValueError"
  /\ facets(df, "journal") # {<<>>}

AuthorNames == UNION {Range(df[i].Authors_list) : i \in 1..Len(df)}

\* the number of selected documents whose author list contains both a and b
SharedDocuments(a, b) ==
  Cardinality({p \in call.ids : {a, b} \subseteq Range(RowOf(df, p).Authors_list)})

\* C18: in the co-author graph of a selected set of documents, the weight of
\* the edge {a, b}, a # b, is the number of selected documents whose author
\* list contains both a and b, and there is no edge when that number is 0.
C18_EdgeWeightCountsSharedDocuments ==
  Called("coauthor_network")
  => \A a, b \in AuthorNames :
       a # b =>
         IF SharedDocuments(a, b) = 0 THEN {a, b} \notin DOMAIN graph
         ELSE {a, b} \in DOMAIN graph /\ graph[{a, b}] = SharedDocuments(a, b)

\* a record with a text field that is None
MissingText(r) == NoText \in {r.Title, r.Abstract, r.Authors, r.Journal, r.DOI}

\* C19: a missing Title, Abstract, Authors, Journal or DOI is handled as the
\* empty string: normalize and tokenize return empty results for it, and on
\* a corpus with such a document the engine construction and the metadata
\* filter complete without raising; the document gets no index entry and no
\* sentence from a missing title or abstract.
C19_MissingTextIsEmptyString ==
  /\ normalize_text(NoText) = "" /\ tokenize(NoText) = <<>>
  /\ (corpus # <<>> /\ \E i \in 1..Len(records) : MissingText(records[i]))
       => /\ ~(pc = "failed" /\ call.name = "SearchEngine")
          /\ Called("_apply_filters") => err = "none"
          /\ pc \in {"ready", "called"} =>
               \A i \in 1..Len(df) :
                 /\ df[i].Title = "" =>
                      \A t \in DOMAIN inv_ti : df[i].PMID \notin inv_ti[t]
                 /\ df[i].Abstract = "" =>
                      /\ \A t \in DOMAIN inv_ab : df[i].PMID \notin inv_ab[t]
                      /\ sentences[df[i].PMID] = <<>>

\* the documents left by boolean selection and the metadata filter
Surviving ==
  {p \in candidate_pmids(df, inv_ti, inv_ab, call.groups, call.op, call.fields) :
     PassesFilters(RowOf(df, p), call.filt, call.fields)}

\* C20: when boolean selection or the metadata filter leaves no document,
\* search returns the empty list and raises no error, for every operator,
\* fields value and filter argument.
C20_NoSurvivorReturnsEmptyList ==
  (Called("search") /\ Surviving = {})
  => out = <<>> /\ err = "none"

\* a search whose candidates are all removed by the metadata filter
C20_Witness ==
  /\ Called("search") /\ Surviving = {} /\ out = <<>> /\ err = "none"
  /\ candidate_pmids(df, inv_ti, inv_ab, call.groups, call.op, call.fields) # {}

\* C21: normalize is idempotent: for every string x, Greek letters of the
\* substitution table followed by combining marks and every kind of
\* whitespace included, normalize(normalize(x)) = normalize(x).
C21_NormalizeIdempotent ==
  Called("normalize_text") => normalize_text(call.norm) = call.norm

\* the i-th group of an expansion is sorted ascending without duplicates
StrictlySorted(group) ==
  \A j \in 1..(Len(group) - 1) : StrLess(group[j], group[j + 1])

\* C22: expand is a per-term, order-preserving map: the output is as long as
\* the input list, its i-th group contains the normalized lower-cased i-th
\* term, and every group is a sorted list without duplicates.
C22_ExpandPerTermSorted ==
  Called("expand_query_terms")
  => /\ Len(call.groups) = Len(call.query)
     /\ \A i \in 1..Len(call.query) :
          /\ Lower(normalize_text(call.query[i])) \in Range(call.groups[i])
          /\ StrictlySorted(call.groups[i])

\* two different terms expanded to groups of more than one variant, the
\* first term's group first
C22_Witness ==
  /\ Called("expand_query_terms") /\ Len(call.query) = 2
  /\ call.query[1] # call.query[2]
  /\ Len(call.groups[1]) > 1 /\ Len(call.groups[2]) > 1
  /\ call.groups[1] # call.groups[2]
  /\ call.query[1] # Lower(normalize_text(call.query[1]))

\* C23: candidate selection with an empty list of query groups returns the
\* set of all document ids, for every operator and every fields value.
C23_EmptyGroupsSelectAll ==
  (Called("_candidate_pmids") /\ call.groups = <<>>) => out_ids = AllPmids

\* an OR selection with no group over the abstract index returned all of a
\* corpus of three documents
C23_Witness ==
  /\ Called("_candidate_pmids") /\ call.groups = <<>> /\ call.op = "OR"
  /\ call.fields = "ab" /\ Cardinality(out_ids) = 3 /\ out_ids = AllPmids

\* the tokens whose entry in the index holds the document
IndexedUnder(index, pmid) == {t \in DOMAIN index : pmid \in index[t]}

\* C24: after construction, for every token t and document d, d is in the
\* title index entry of t if and only if t is a token of d's title, likewise
\* for the abstract index, and no entry holds an id that is not in the corpus.
C24_InvertedIndexExact ==
  pc \in {"ready", "called"}
  => /\ \A i \in 1..Len(df) :
          /\ IndexedUnder(inv_ti, df[i].PMID) = Range(tokenize(df[i].Title))
          /\ IndexedUnder(inv_ab, df[i].PMID) = Range(tokenize(df[i].Abstract))
     /\ \A t \in DOMAIN inv_ti : inv_ti[t] \subseteq AllPmids
     /\ \A t \in DOMAIN inv_ab : inv_ab[t] \subseteq AllPmids

\* an engine whose title index has an entry of two documents and an entry of
\* one, and a title token that the same document's abstract does not have
C24_Witness ==
  /\ pc = "ready"
  /\ \E t \in DOMAIN inv_ti : Cardinality(inv_ti[t]) = 2
  /\ \E t \in DOMAIN inv_ti :
       /\ Cardinality(inv_ti[t]) = 1
       /\ inv_ti[t] \cap Get(inv_ab, t) = {}
  /\ \E i \in 1..Len(df) : Len(tokenize(df[i].Title)) > 2

\* Python's `sub in s` after lower-casing both
CIContains(s, sub) == Contains(Lower(s), Lower(sub))

\* the call's filter with the journal, author and DOI rules switched off
YearAndExcludeOnly ==
  [call.filt EXCEPT !.journal_inc = <<>>, !.journal_exc = <<>>, !.author = "",
                    !.has_doi = FALSE]

\* C25: the journal, author and DOI rules of the metadata filter are
\* conjunctive and case-insensitive: a document that passes the year and
\* exclude-term rules is kept if and only if (journal_include is empty or
\* its journal contains an include substring) and (its journal contains no
\* journal_exclude substring) and (no author substring is given or it occurs
\* in the author string) and (require_doi is false or its DOI is non-empty).
C25_JournalAuthorDoiConjunctive ==
  Called("_apply_filters")
  => \A p \in call.ids :
       LET row == RowOf(df, p)
           f == call.filt
       IN  p \in apply_filters(df, {p}, YearAndExcludeOnly, call.fields)
           => (p \in out_ids
                 <=> /\ \/ f.journal_inc = <<>>
                        \/ \E j \in 1..Len(f.journal_inc) :
                             CIContains(row.Journal, f.journal_inc[j])
                     /\ \A j \in 1..Len(f.journal_exc) :
                          ~CIContains(row.Journal, f.journal_exc[j])
                     /\ f.author = "" \/ CIContains(row.Authors, f.author)
                     /\ ~f.has_doi \/ row.DOI # "")

\* a filter with a journal, an author and the DOI rule keeps one document
\* and drops another that passes the year rule, on upper-case substrings
C25_Witness ==
  /\ Called("_apply_filters")
  /\ call.filt.journal_inc # <<>> /\ call.filt.author # "" /\ call.filt.has_doi
  /\ \E j \in 1..Len(call.filt.journal_inc) :
       call.filt.journal_inc[j] # Lower(call.filt.journal_inc[j])
  /\ out_ids # {}
  /\ \E p \in call.ids \ out_ids :
       p \in apply_filters(df, {p}, YearAndExcludeOnly, call.fields)

\* the text of the fields `fields` selects: the title, the abstract, or
\* both joined by one space
SelectedText(row, fields) ==
  IF fields = "ti" THEN row.Title
  ELSE IF fields = "ab" THEN row.Abstract
  ELSE IF fields = "tiab" THEN row.Title \o " " \o row.Abstract
  ELSE ""

\* the call's filter with the exclude_terms rule switched off
NoExcludeTerms == [call.filt EXCEPT !.exclude_terms = <<>>]

\* C26: a document is removed by exclude_terms if and only if at least one
\* exclude term occurs, case-insensitively, as a substring of the text of
\* the selected fields (title for "ti", abstract for "ab", both for "tiab");
\* a term that occurs only in a field that is not selected removes nothing.
C26_ExcludeTermsOnSelectedFields ==
  (Called("_apply_filters") /\ call.fields \in {"ti", "ab", "tiab"})
  => \A p \in call.ids :
       LET row == RowOf(df, p)
           x == call.filt.exclude_terms
           hit(text) == \E t \in 1..Len(x) : CIContains(text, x[t])
       IN  p \in apply_filters(df, {p}, NoExcludeTerms, call.fields)
           => /\ p \notin out_ids <=> hit(SelectedText(row, call.fields))
              /\ (call.fields = "ti" /\ ~hit(row.Title)) => p \in out_ids
              /\ (call.fields = "ab" /\ ~hit(row.Abstract)) => p \in out_ids

\* a title-only filter kept a document whose abstract has an exclude term
\* and removed one whose title has an exclude term
C26_Witness ==
  /\ Called("_apply_filters") /\ call.fields = "ti"
  /\ \E p \in out_ids, t \in 1..Len(call.filt.exclude_terms) :
       CIContains(RowOf(df, p).Abstract, call.filt.exclude_terms[t])
  /\ \E p \in call.ids \ out_ids, t \in 1..Len(call.filt.exclude_terms) :
       /\ CIContains(RowOf(df, p).Title, call.filt.exclude_terms[t])
       /\ p \in apply_filters(df, {p}, NoExcludeTerms, call.fields)

HasPrefix(e, prefix) ==
  Len(e) >= Len(prefix) /\ SubSeq(e, 1, Len(prefix)) = prefix

\* the position of an explanation entry in the order title, recency,
\* review, domain, proximity (0 for any other entry)
ExplKind(e) ==
  IF e = "title" THEN 1
  ELSE IF HasPrefix(e, "recency+") THEN 2
  ELSE IF e = "review" THEN 3
  ELSE IF HasPrefix(e, "domain+") THEN 4
  ELSE IF e = "proximity" THEN 5
  ELSE 0

DigitValue(c) == CHOOSE d \in 0..9 : DigitSeq[d + 1] = c

\* the amount an explanation entry stands for, in thousandths: the fixed
\* bonuses, or the amount "0.dd" written in a recency or domain entry
ExplAmount(e) ==
  IF e \in {"title", "review"} THEN 200
  ELSE IF e = "proximity" THEN 150
  ELSE 100 * DigitValue(Char(e, Len(e) - 1)) + 10 * DigitValue(Char(e, Len(e)))

RECURSIVE SumAmounts(_)
SumAmounts(expl) ==
  IF expl = <<>> THEN 0 ELSE ExplAmount(Head(expl)) + SumAmounts(Tail(expl))

\* the bonus variables of the scoring loop for the document of a result
BonusOf(r) == scored[CHOOSE i \in 1..Len(scored) : scored[i].pmid = r.pmid]

\* C27: for every result record, the score is the base score
\* (1.2 * title cosine + 0.8 * abstract cosine) plus the bonuses that fired,
\* the explanation has one entry for exactly each bonus that contributed a
\* nonzero amount, in the order title, recency, review, domain, proximity,
\* and the bonuses total between 0 and 0.95.
C27_ScoreIsBasePlusExplainedBonuses ==
  Called("search")
  => \A i \in 1..Len(results) :
       LET r == results[i]
           b == BonusOf(r)
           x == r.explanation
           bonus == r.score - (12 * r.cos_title + 8 * r.cos_abstract)
           kinds == {ExplKind(x[j]) : j \in 1..Len(x)}
       IN  /\ bonus = SumAmounts(x)
           /\ bonus = b.title + b.rec + b.review + b.dom + b.prox
           /\ 0 <= bonus /\ bonus <= 950
           /\ \A j \in 1..Len(x) : ExplKind(x[j]) \in 1..5 /\ ExplAmount(x[j]) > 0
           /\ \A j \in 1..(Len(x) - 1) : ExplKind(x[j]) < ExplKind(x[j + 1])
           /\ (1 \in kinds) <=> (b.title # 0)
           /\ (2 \in kinds) <=> (b.rec # 0)
           /\ (3 \in kinds) <=> (b.review # 0)
           /\ (4 \in kinds) <=> (b.dom # 0)
           /\ (5 \in kinds) <=> (b.prox # 0)

\* one ranking holds a result with all five bonuses and positive cosines
\* and a result with the title bonus alone
C27_Witness ==
  /\ Called("search") /\ err = "none"
  /\ \E i \in 1..Len(out) :
       /\ Len(out[i].explanation) = 5
       /\ out[i].cos_title > 0 /\ out[i].cos_abstract > 0
  /\ \E i \in 1..Len(out) : out[i].explanation = <<"title">>

\* the keywords of the domain list that occur in the lower-cased abstract,
\* for the texts of RawPool
KeywordsOf ==
  [t \in PoolTexts |-> {kw \in Range(DOMAIN_KEYWORDS) : Contains(Lower(t), kw)}]

KeywordsIn(abstract) == KeywordsOf[abstract]

\* C28: the domain boost of a document is min(0.2, 0.1 * n), n the number of
\* distinct domain keywords that occur as substrings of its lower-cased
\* abstract: 0 with no keyword, 0.1 with exactly one, never more than 0.2.
C28_DomainBoostCapped ==
  Called("search")
  => \A i \in 1..Len(scored) :
       LET n == Cardinality(KeywordsIn(RowOf(df, scored[i].pmid).Abstract))
           dom == scored[i].dom
       IN  /\ dom = Min(200, 100 * n)
           /\ n = 0 => dom = 0
           /\ n = 1 => dom = 100
           /\ dom <= 200

\* one search scored a document without a keyword, one with exactly one
\* and one with more than two
C28_Witness ==
  /\ Called("search")
  /\ \E i, j, m \in 1..Len(scored) :
       /\ KeywordsIn(RowOf(df, scored[i].pmid).Abstract) = {}
       /\ Cardinality(KeywordsIn(RowOf(df, scored[j].pmid).Abstract)) = 1
       /\ Cardinality(KeywordsIn(RowOf(df, scored[m].pmid).Abstract)) > 2
       /\ scored[i].dom = 0 /\ scored[j].dom = 100 /\ scored[m].dom = 200

\* the boolean candidate set of the call's query
Candidates ==
  candidate_pmids(df, inv_ti, inv_ab, call.groups, call.op, call.fields)

\* C29: every record search returns refers to a document of the corpus, no
\* PMID appears twice in one result list, every returned document is in the
\* boolean candidate set of the query, and every returned document that has
\* a Year satisfies year_min <= Year and, when year_max is given,
\* Year <= year_max.
C29_ResultsAreFilteredCandidates ==
  Called("search")
  => /\ \A i \in 1..Len(out) :
          /\ out[i].pmid \in AllPmids
          /\ out[i].pmid \in Candidates
          /\ notna(out[i].year) =>
               /\ call.filt.year_min <= out[i].year[1]
               /\ notna(call.filt.year_max) => out[i].year[1] <= call.filt.year_max[1]
     /\ \A i, j \in 1..Len(out) : out[i].pmid = out[j].pmid => i = j

\* a search with a year_max returned a document while a candidate was
\* dropped for its year and another document was no candidate
C29_Witness ==
  /\ Called("search") /\ err = "none" /\ out # <<>>
  /\ notna(call.filt.year_max)
  /\ Candidates # AllPmids
  /\ \E p \in Candidates :
       /\ notna(RowOf(df, p).Year)
       /\ RowOf(df, p).Year[1] > call.filt.year_max[1]

\* C30: for a fields value other than "ti", "ab" and "tiab" no error is
\* raised: candidate selection uses the merged title-and-abstract index as
\* for "tiab", the exclude_terms rule inspects no text and removes no
\* document, and both cosines of every result are 0.
C30_UnknownFieldsFallThrough ==
  call.fields \notin {"", "ti", "ab", "tiab"}
  => /\ Called("_candidate_pmids") =>
          /\ err = "none"
          /\ out_ids = candidate_pmids(df, inv_ti, inv_ab, call.groups, call.op,
                                        "tiab")
     /\ Called("_apply_filters") =>
          /\ err = "none"
          /\ out_ids = apply_filters(df, call.ids, NoExcludeTerms, call.fields)
     /\ Called("search") =>
          /\ err = "none"
          /\ Candidates = candidate_pmids(df, inv_ti, inv_ab, call.groups, call.op,
                                          "tiab")
          /\ \A i \in 1..Len(results) :
               results[i].cos_title = 0 /\ results[i].cos_abstract = 0

====
